---- MODULE Spec2Model ----
(***************************************************************************)
(* Agentic RAG controller of AskMyDocs: the ChatAPI /ask handler, the      *)
(* LangGraph workflow built by AgenticRAG._build_graph, its MemorySaver    *)
(* session memory, the HybridSearchRetriever evidence slot and the Qdrant  *)
(* collection the retriever searches (Spec, SpecLoop); the document store  *)
(* of DocumentProcessor and QdrantOfficialHybridStore: uploads, indexing,  *)
(* deletes (SpecStore) and the hybrid and dense-only searches (SpecSearch).*)
(***************************************************************************)
EXTENDS Integers, Sequences, FiniteSets, TLC

\* ------------------------------------------------------------------ bounds
\* Points the collection holds at most in the document-store runs.
MaxPoints == 4

\* Largest `limit` a search is given in the document-store runs.
MaxLimit == 2

\* The constant k of the reciprocal rank fusion, for 1-based ranks.
RrfK == 1

\* Number of /ask requests explored in one behaviour.
MaxAsks == 2

\* Supersteps one graph run may execute before the engine aborts it with a
\* GraphRecursionError. graph.invoke (agentic_rag.py:304) passes no
\* recursion_limit, so the engine's default applies; the model explores a
\* scaled-down limit to keep the state space finite.
StepLimit == 4

\* The same limit in the runs that explore the rewrite loop alone: the
\* engine's default of 25 supersteps.
LoopStepLimit == 25

\* ------------------------------------------------------- program constants
\* self.retriever.last_retrieved_docs[:5]
SourceLimit == 5

\* hybrid_search(query=query, limit=8, ...)
SearchLimit == 8

\* ChatRequest.max_sources default
MaxSources == 3

\* doc.page_content[:300] + "..."
PreviewLimit == 300

\* len("...")
EllipsisLen == 3

\* document_separator of the retriever tool: len("\n\n")
SeparatorLen == 2

\* ------------------------------------------------------------------ values
\* Session ids a client may send; NoSession is request.session_id = None.
Sessions == {"s1"}

NoSession == "none"

\* str(uuid.uuid4()) generated for the a-th request.
Uuid(a) == <<"u1", "u2", "u3", "u4">>[a]

AskIds == 1..MaxAsks

ThreadIds == Sessions \cup {Uuid(a) : a \in AskIds}

\* Document ids that can be indexed.
Docs == {"d1"}

\* Document ids in the runs that explore the document store.
StoreDocs == {"d1", "d2"}

\* document_id = None: no document filter.
NoDocument == "none"

\* ---------------------------------------------------------------- messages
\* Content of a message. text = "" with no docs is the empty string.
EmptyContent == [text |-> "", of |-> 0, docs |-> <<>>]

\* The fixed apologetic answer of both except branches.
FallbackAnswer == [text |-> "apology", of |-> 0, docs |-> <<>>]

Text(kind, a) == [text |-> kind, of |-> a, docs |-> <<>>]

\* {"role": "user", "content": question}
HumanMessage(a, kind) ==
    [type |-> "human", ask |-> a, tool_calls |-> FALSE, content |-> Text(kind, a)]

\* The model's direct reply (no tool call).
AIReply(a) ==
    [type |-> "ai", ask |-> a, tool_calls |-> FALSE, content |-> Text("reply", a)]

\* The model's reply requesting retrieve_documents.
AIToolRequest(a) ==
    [type |-> "ai", ask |-> a, tool_calls |-> TRUE, content |-> EmptyContent]

\* The answer generated from the retrieved context.
AIAnswer(a) ==
    [type |-> "ai", ask |-> a, tool_calls |-> FALSE, content |-> Text("answer", a)]

\* ToolNode's message: the retrieved documents joined into one string, which
\* is the empty string when nothing was retrieved.
ToolMessage(a, docs) ==
    [type |-> "tool", ask |-> a, tool_calls |-> FALSE,
     content |-> IF docs = <<>> THEN EmptyContent
                 ELSE [text |-> "context", of |-> a, docs |-> docs]]

IsPrefix(s, t) == Len(s) <= Len(t) /\ SubSeq(t, 1, Len(s)) = s

Take(s, n) == SubSeq(s, 1, IF Len(s) < n THEN Len(s) ELSE n)

\* ------------------------------------------------------------------- state
VARIABLES
    index,                \* Qdrant collection: document ids that have points
    graph,                \* AgenticRAG.graph: "none" or "built"
    has_documents,        \* AgenticRAG.has_documents
    rag_ready,            \* ChatAPI.rag_ready
    checkpointer,         \* MemorySaver: thread id -> messages of its latest checkpoint
    last_retrieved_docs,  \* HybridSearchRetriever.last_retrieved_docs
    calls,                \* the /ask requests: position and locals of each
    nAsks,                \* requests received so far
    recursion_limit,      \* supersteps the engine allows one graph run
    points,               \* Qdrant collection: the stored points, in upload order
    records,              \* document ids that have a row in the database
    ledger,               \* per document: chunks the index calls reported since its last completed delete
    reply,                \* outcome of the last document-store operation
    chunking,             \* the chunker: its input document and the runs made on it
    extraction,           \* extract_document_content: the page extractions of one document
    batch                 \* process_document_batch: its tasks and its return value

\* The state of the document store, which the /ask controller leaves alone.
storeVars == <<points, records, ledger, reply>>

\* The state of the /ask controller, which the document store leaves alone.
\* The state of the ingestion pipeline: chunker, page extraction, batches.
ingestVars == <<chunking, extraction, batch>>

ragVars == <<index, graph, has_documents, rag_ready, checkpointer,
             last_retrieved_docs, calls, nAsks, recursion_limit>>

vars == <<index, graph, has_documents, rag_ready, checkpointer,
          last_retrieved_docs, calls, nAsks, recursion_limit,
          points, records, ledger, reply, chunking, extraction, batch>>

NoResult == [status |-> "", answer |-> EmptyContent, sources |-> <<>>]

\* No document-store operation has run yet.
NoReply == [op |-> "none"]

NoResponse == [answer |-> EmptyContent, sources |-> <<>>, response_time |-> 0,
               conversation_type |-> ""]

IdleCall ==
    [pc |-> "idle", sid |-> "", msgs |-> <<>>, pending |-> <<>>, step |-> 0,
     rewrites |-> 0, retrievals |-> 0, grade |-> "", base |-> <<>>,
     searchRaised |-> FALSE, extOk |-> FALSE, elapsed |-> 0, rag |-> NoResult, response |-> NoResponse]

\* The chunker has been given no document.
NoChunking == [document |-> <<>>, runs |-> <<>>]

\* No extraction is under way.
NoExtraction == [pc |-> "none"]

\* No batch is under way.
NoBatch == [pc |-> "none"]

IngestIdle ==
    /\ chunking = NoChunking
    /\ extraction = NoExtraction
    /\ batch = NoBatch

\* AgenticRAG.__init__ and the module state before ChatAPI's first setup.
Init ==
    /\ index = {}
    /\ graph = "none"
    /\ has_documents = FALSE
    /\ rag_ready = FALSE
    /\ checkpointer = [t \in ThreadIds |-> <<>>]
    /\ last_retrieved_docs = <<>>
    /\ calls = [c \in AskIds |-> IdleCall]
    /\ nAsks = 0
    /\ recursion_limit = StepLimit
    /\ points = <<>>
    /\ records = {}
    /\ ledger = [d \in StoreDocs |-> 0]
    /\ reply = NoReply
    /\ IngestIdle

\* ------------------------------------------------------------ vector store
\* Rank order the collection returns points in.
DocOrder == <<"d1">>

\* Length of the content of the chunk stored for a document: the points of
\* the collection hold non-empty content, here longer than a preview.
PageContentLength(d) == PreviewLimit + 1

IsIndexed(d) == d \in index

\* QdrantOfficialHybridStore.hybrid_search as the retriever calls it (no
\* document filter), converted to LangChain documents by
\* get_relevant_documents; query names the request whose tool call ran it.
HybridSearch(a) ==
    LET hits == Take(SelectSeq(DocOrder, IsIndexed), SearchLimit)
    IN  [i \in 1..Len(hits) |->
            [document_id |-> hits[i], query |-> a,
             page_content |-> PageContentLength(hits[i])]]

\* get_collection_stats()["total_points"]
TotalPoints == Cardinality(index)

\* ------------------------------------------------------------- event loop
Active == {"decide", "retrieve", "grade", "rewrite", "answer", "respond", "done"}

LoopBusy_yielding == FALSE

\* Every route is a coroutine on one event loop and ChatAPI.ask_question
\* calls the blocking agentic_rag.ask_question without awaiting anything, so
\* no other handler runs while a request is being served.
LoopBusy == \E c \in AskIds : calls[c].pc \in Active

\* ------------------------------------------------------------------- setup
\* _check_processed_documents: a failing stats call yields has_documents False.
CheckProcessedDocuments(statsOk) == statsOk /\ TotalPoints > 0

\* setup_for_all_documents: has_documents, graph and the return value. A
\* failure of _build_graph is swallowed after has_documents was assigned.
SetupHasDocuments(statsOk) == CheckProcessedDocuments(statsOk)

SetupGraph(buildOk) == IF buildOk THEN "built" ELSE graph

SetupReturn(statsOk, buildOk) == buildOk /\ CheckProcessedDocuments(statsOk)

CheckpointerAfterBuild_fresh(buildOk) ==
    IF buildOk THEN [t \in ThreadIds |-> <<>>] ELSE checkpointer

\* _build_graph compiles the workflow with self.checkpointer, the MemorySaver
\* created once in __init__: the stored threads survive a rebuild.
CheckpointerAfterBuild(buildOk) == checkpointer

\* POST /refresh-rag -> _initialize_rag_system -> setup_for_all_documents
RefreshRag ==
    /\ ~LoopBusy
    /\ \E statsOk \in BOOLEAN, buildOk \in BOOLEAN :
        /\ has_documents' = SetupHasDocuments(statsOk)
        /\ graph' = SetupGraph(buildOk)
        /\ rag_ready' = SetupReturn(statsOk, buildOk)
        /\ checkpointer' = CheckpointerAfterBuild(buildOk)
    /\ UNCHANGED <<index, last_retrieved_docs, calls, nAsks, recursion_limit, storeVars, ingestVars>>

\* index_document: the document's chunks are uploaded (nothing is stored when
\* no chunk has content); an embedding or storage failure raises.
IndexDocument(d) ==
    /\ ~LoopBusy
    /\ \E stored \in BOOLEAN :
        index' = IF stored THEN index \cup {d} ELSE index
    /\ UNCHANGED <<graph, has_documents, rag_ready, checkpointer,
                   last_retrieved_docs, calls, nAsks, recursion_limit, storeVars, ingestVars>>

\* delete_document: filtered delete of the document's points; False and no
\* change when the backend raises.
DeleteDocument(d) ==
    /\ ~LoopBusy
    /\ \E ok \in BOOLEAN :
        index' = IF ok THEN index \ {d} ELSE index
    /\ UNCHANGED <<graph, has_documents, rag_ready, checkpointer,
                   last_retrieved_docs, calls, nAsks, recursion_limit, storeVars, ingestVars>>

\* ------------------------------------------------------------ graph engine
PutCheckpoint_shared(cp, sid, msgs) == [t \in DOMAIN cp |-> msgs]

\* The checkpointer saves the thread's channel values after every superstep
\* (and after the input is applied); the latest checkpoint is what the next
\* run on the thread starts from.
PutCheckpoint(cp, sid, msgs) == [cp EXCEPT ![sid] = msgs]

\* The run may execute another superstep.
WithinLimit(c) == calls[c].step < recursion_limit

\* question = state["messages"][0].content: what _grade_documents,
\* _rewrite_question and _generate_answer put into their prompts.
Question(msgs) == msgs[1].content

\* Content of the last tool message: the reversed scan of _grade_documents
\* and _generate_answer, which stops at the first tool message it meets.
LastToolContent(msgs) ==
    LET tools == {i \in 1..Len(msgs) : msgs[i].type = "tool"}
    IN  IF tools = {} THEN EmptyContent
        ELSE msgs[CHOOSE i \in tools : \A j \in tools : j <= i].content

\* Sum of the page_content lengths of a list of documents.
RECURSIVE TotalLength(_)
TotalLength(docs) ==
    IF docs = <<>> THEN 0 ELSE Head(docs).page_content + TotalLength(Tail(docs))

\* Length of a message content; a tool message holds the retrieved
\* documents joined by the separator.
ContentLength(content) ==
    IF content.docs = <<>> THEN 0
    ELSE TotalLength(content.docs) + SeparatorLen * (Len(content.docs) - 1)

\* content[:300] + "..." if len(content) > 300 else content, as its length.
ContentPreview(length) ==
    IF length > PreviewLimit THEN PreviewLimit + EllipsisLen ELSE length

\* _extract_sources_from_tool_messages
ExtractSources(messages, docs) ==
    IF docs # <<>>
    THEN LET top == Take(docs, SourceLimit)
         IN  [i \in 1..Len(top) |->
                 [document_id |-> top[i].document_id, query |-> top[i].query,
                  content_preview |-> ContentPreview(top[i].page_content),
                  search_type |-> "official_hybrid_rrf"]]
    ELSE LET withText == {i \in 1..Len(messages) :
                             /\ messages[i].type = "tool"
                             /\ messages[i].content # EmptyContent}
         IN  IF withText = {} THEN <<>>
             ELSE LET first == CHOOSE i \in withText : \A j \in withText : i <= j
                  IN  <<[document_id |-> "", query |-> messages[first].ask,
                         content_preview |->
                             ContentPreview(ContentLength(messages[first].content)),
                         search_type |-> "unknown"]>>

FallbackResult_stale_sources ==
    [status |-> "fallback", answer |-> FallbackAnswer,
     sources |-> ExtractSources(<<>>, last_retrieved_docs)]

\* The except branch of AgenticRAG.ask_question.
FallbackResult == [status |-> "fallback", answer |-> FallbackAnswer, sources |-> <<>>]

\* The return of AgenticRAG.ask_question after graph.invoke.
OkResult(messages, docs) ==
    [status |-> "ok", answer |-> messages[Len(messages)].content,
     sources |-> ExtractSources(messages, docs)]

\* graph.invoke raised: the run's unapplied writes are dropped.
Failed(r) ==
    [r EXCEPT !.pc = "respond", !.pending = <<>>, !.elapsed = r.elapsed + 1,
              !.searchRaised = FALSE, !.rag = FallbackResult]

\* ------------------------------------------------------------ /ask handler
\* The except branch of ChatAPI.ask_question.
ErrorResponse(elapsed) ==
    [answer |-> FallbackAnswer, sources |-> <<>>, response_time |-> elapsed,
     conversation_type |-> "error"]

\* ChatAPI._format_sources with the request's defaults (include_sources,
\* max_sources = 3): every reference is filed under the multi-document id.
FormatSources(rag_sources) ==
    LET limited == Take(rag_sources, MaxSources)
    IN  [i \in 1..Len(limited) |->
            [document_id |-> "multi-doc", query |-> limited[i].query,
             content_preview |-> limited[i].content_preview]]

\* ValueError raised by AgenticRAG.ask_question before its try block.
RaisedResult == [status |-> "raised", answer |-> EmptyContent, sources |-> <<>>]

\* ChatAPI.ask_question from its entry to the input checkpoint of
\* graph.invoke: session id, refresh when the RAG system is not ready, the
\* graph check of AgenticRAG.ask_question, the question appended to the thread.
AskStart(c, req) ==
    /\ ~LoopBusy
    /\ c = nAsks + 1
    /\ calls[c].pc = "idle"
    /\ \E statsOk \in BOOLEAN, buildOk \in BOOLEAN :
        LET sid == IF req = NoSession THEN Uuid(c) ELSE req
            refresh == ~rag_ready
            g == IF refresh THEN SetupGraph(buildOk) ELSE graph
            cp == IF refresh THEN CheckpointerAfterBuild(buildOk) ELSE checkpointer
            spent == IF refresh THEN 1 ELSE 0
            msgs == Append(cp[sid], HumanMessage(c, "question"))
        IN  /\ has_documents' =
                 IF refresh THEN SetupHasDocuments(statsOk) ELSE has_documents
            /\ graph' = g
            /\ rag_ready' = IF refresh THEN SetupReturn(statsOk, buildOk) ELSE rag_ready
            /\ IF g = "none"
               THEN /\ checkpointer' = cp
                    /\ calls' = [calls EXCEPT ![c] =
                           [IdleCall EXCEPT !.pc = "done", !.sid = sid,
                                            !.elapsed = spent,
                                            !.extOk = refresh /\ statsOk,
                                            !.rag = RaisedResult,
                                            !.response = ErrorResponse(spent)]]
               ELSE /\ checkpointer' = PutCheckpoint(cp, sid, msgs)
                    /\ calls' = [calls EXCEPT ![c] =
                           [IdleCall EXCEPT !.pc = "decide", !.sid = sid,
                                            !.elapsed = spent,
                                            !.extOk = refresh /\ statsOk,
                                            !.base = cp[sid],
                                            !.msgs = msgs]]
    /\ nAsks' = c
    /\ UNCHANGED <<index, last_retrieved_docs, recursion_limit, storeVars, ingestVars>>

\* Node generate_query_or_respond followed by tools_condition. The tool is
\* bound only when has_documents is set.
Decide(c) ==
    /\ calls[c].pc = "decide"
    /\ \E out \in {"raise", "reply", "tool"} :
        LET r == calls[c] IN
        /\ out = "tool" => has_documents
        /\ IF ~WithinLimit(c) \/ out = "raise"
           THEN /\ calls' = [calls EXCEPT ![c] = Failed(r)]
                /\ UNCHANGED checkpointer
           ELSE IF out = "reply"
           THEN LET msgs == Append(r.msgs, AIReply(c)) IN
                /\ checkpointer' = PutCheckpoint(checkpointer, r.sid, msgs)
                /\ calls' = [calls EXCEPT ![c] =
                       [r EXCEPT !.pc = "respond", !.msgs = msgs,
                                 !.step = r.step + 1, !.extOk = TRUE,
                                 !.elapsed = r.elapsed + 1,
                                 !.rag = OkResult(msgs, last_retrieved_docs)]]
           ELSE LET msgs == Append(r.msgs, AIToolRequest(c)) IN
                /\ checkpointer' = PutCheckpoint(checkpointer, r.sid, msgs)
                /\ calls' = [calls EXCEPT ![c] =
                       [r EXCEPT !.pc = "retrieve", !.msgs = msgs,
                                 !.step = r.step + 1, !.extOk = TRUE,
                                 !.elapsed = r.elapsed + 1]]
    /\ UNCHANGED <<index, graph, has_documents, rag_ready, last_retrieved_docs, nAsks, recursion_limit, storeVars, ingestVars>>

\* Node retrieve: ToolNode runs the retriever tool. get_relevant_documents
\* replaces last_retrieved_docs, with [] when the search raises; the tool
\* message is a write of the running superstep, not yet in a checkpoint.
Retrieve(c) ==
    /\ calls[c].pc = "retrieve"
    /\ LET r == calls[c] IN
       IF ~WithinLimit(c)
       THEN /\ calls' = [calls EXCEPT ![c] = Failed(r)]
            /\ UNCHANGED last_retrieved_docs
       ELSE \E searchOk \in BOOLEAN :
            LET docs == IF searchOk THEN HybridSearch(c) ELSE <<>> IN
            /\ last_retrieved_docs' = docs
            /\ calls' = [calls EXCEPT ![c] =
                   [r EXCEPT !.pc = "grade", !.pending = <<ToolMessage(c, docs)>>,
                             !.retrievals = r.retrievals + 1,
                             !.elapsed = r.elapsed + 1,
                             !.searchRaised = ~searchOk,
                             !.extOk = r.extOk \/ searchOk]]
    /\ UNCHANGED <<index, graph, has_documents, rag_ready, checkpointer, nAsks, recursion_limit, storeVars, ingestVars>>

GradeDocuments_unchecked(messages, verdict) ==
    IF verdict = "raise" THEN "raise"
    ELSE IF verdict = "yes" THEN "generate_answer"
    ELSE "rewrite_question"

\* _grade_documents: the route taken for the grader's verdict. Without a
\* context the grader is not invoked.
GradeDocuments(messages, verdict) ==
    IF LastToolContent(messages) = EmptyContent THEN "rewrite_question"
    ELSE IF verdict = "raise" THEN "raise"
    ELSE IF verdict = "yes" THEN "generate_answer"
    ELSE "rewrite_question"

\* The conditional edge after retrieve. It runs inside the retrieve task and
\* sees the task's own tool message; when the grader raises, the task fails
\* and its tool message never reaches a checkpoint.
Grade(c) ==
    /\ calls[c].pc = "grade"
    /\ \E verdict \in {"raise", "yes", "no"} :
        LET r == calls[c]
            messages == r.msgs \o r.pending
            asked == LastToolContent(messages) # EmptyContent
            route == GradeDocuments(messages, verdict)
        IN  /\ IF route = "raise"
               THEN /\ calls' = [calls EXCEPT ![c] = Failed(r)]
                    /\ UNCHANGED checkpointer
               ELSE /\ checkpointer' = PutCheckpoint(checkpointer, r.sid, messages)
                    /\ calls' = [calls EXCEPT ![c] =
                           [r EXCEPT !.pc = IF route = "generate_answer"
                                            THEN "answer" ELSE "rewrite",
                                     !.msgs = messages, !.pending = <<>>,
                                     !.searchRaised = FALSE,
                                     !.step = r.step + 1,
                                     !.grade = IF asked THEN verdict ELSE "none",
                                     !.elapsed = r.elapsed + (IF asked THEN 1 ELSE 0),
                                     !.extOk = r.extOk \/ asked]]
    /\ UNCHANGED <<index, graph, has_documents, rag_ready, last_retrieved_docs, nAsks, recursion_limit, storeVars, ingestVars>>

\* Node rewrite_question: the reformulated question is appended as a user
\* message and control returns to generate_query_or_respond.
Rewrite(c) ==
    /\ calls[c].pc = "rewrite"
    /\ \E ok \in BOOLEAN :
        LET r == calls[c]
            msgs == Append(r.msgs, HumanMessage(c, "rewrite"))
        IN  IF ~WithinLimit(c) \/ ~ok
            THEN /\ calls' = [calls EXCEPT ![c] = Failed(r)]
                 /\ UNCHANGED checkpointer
            ELSE /\ checkpointer' = PutCheckpoint(checkpointer, r.sid, msgs)
                 /\ calls' = [calls EXCEPT ![c] =
                        [r EXCEPT !.pc = "decide", !.msgs = msgs,
                                  !.step = r.step + 1,
                                  !.rewrites = r.rewrites + 1, !.extOk = TRUE,
                                  !.elapsed = r.elapsed + 1]]
    /\ UNCHANGED <<index, graph, has_documents, rag_ready, last_retrieved_docs, nAsks, recursion_limit, storeVars, ingestVars>>

\* Node generate_answer, whose only edge leads to END.
Answer(c) ==
    /\ calls[c].pc = "answer"
    /\ \E ok \in BOOLEAN :
        LET r == calls[c]
            msgs == Append(r.msgs, AIAnswer(c))
        IN  IF ~WithinLimit(c) \/ ~ok
            THEN /\ calls' = [calls EXCEPT ![c] = Failed(r)]
                 /\ UNCHANGED checkpointer
            ELSE /\ checkpointer' = PutCheckpoint(checkpointer, r.sid, msgs)
                 /\ calls' = [calls EXCEPT ![c] =
                        [r EXCEPT !.pc = "respond", !.msgs = msgs,
                                  !.step = r.step + 1, !.extOk = TRUE,
                                  !.elapsed = r.elapsed + 1,
                                  !.rag = OkResult(msgs, last_retrieved_docs)]]
    /\ UNCHANGED <<index, graph, has_documents, rag_ready, last_retrieved_docs, nAsks, recursion_limit, storeVars, ingestVars>>

\* ChatAPI.ask_question after agentic_rag.ask_question returned: sources are
\* formatted, the elapsed time is taken and the documents are counted; if the
\* count raises, the except branch answers.
Respond(c) ==
    /\ calls[c].pc = "respond"
    /\ \E dbOk \in BOOLEAN :
        LET r == calls[c] IN
        calls' = [calls EXCEPT ![c] =
            [r EXCEPT !.pc = "done",
                      !.extOk = r.extOk \/ dbOk,
                      !.response =
                          IF dbOk
                          THEN [answer |-> r.rag.answer,
                                sources |-> FormatSources(r.rag.sources),
                                response_time |-> r.elapsed,
                                conversation_type |-> "multi-document"]
                          ELSE ErrorResponse(r.elapsed + 1)]]
    /\ UNCHANGED <<index, graph, has_documents, rag_ready, checkpointer,
                   last_retrieved_docs, nAsks, recursion_limit, storeVars, ingestVars>>

ReturnedCall == [IdleCall EXCEPT !.pc = "returned"]

\* The handler returns its ChatResponse and its frame is gone.
Deliver(c) ==
    /\ calls[c].pc = "done"
    /\ calls' = [calls EXCEPT ![c] = ReturnedCall]
    /\ UNCHANGED <<index, graph, has_documents, rag_ready, checkpointer,
                   last_retrieved_docs, nAsks, recursion_limit, storeVars, ingestVars>>

Next ==
    \/ RefreshRag
    \/ \E d \in Docs : IndexDocument(d)
    \/ \E d \in Docs : DeleteDocument(d)
    \/ \E c \in AskIds, req \in Sessions \cup {NoSession} : AskStart(c, req)
    \/ \E c \in AskIds : Decide(c)
    \/ \E c \in AskIds : Retrieve(c)
    \/ \E c \in AskIds : Grade(c)
    \/ \E c \in AskIds : Rewrite(c)
    \/ \E c \in AskIds : Answer(c)
    \/ \E c \in AskIds : Respond(c)
    \/ \E c \in AskIds : Deliver(c)

Spec == Init /\ [][Next]_vars

\* One request on a system whose document d1 was indexed and set up, with
\* room for several rounds of the rewrite loop.
InitLoop ==
    /\ index = {"d1"}
    /\ graph = "built"
    /\ has_documents = TRUE
    /\ rag_ready = TRUE
    /\ checkpointer = [t \in ThreadIds |-> <<>>]
    /\ last_retrieved_docs = <<>>
    /\ calls = [c \in AskIds |-> IdleCall]
    /\ nAsks = 0
    /\ recursion_limit = LoopStepLimit
    /\ points = <<>>
    /\ records = {}
    /\ ledger = [d \in StoreDocs |-> 0]
    /\ reply = NoReply
    /\ IngestIdle

NextLoop ==
    \/ AskStart(1, "s1")
    \/ Decide(1)
    \/ Retrieve(1)
    \/ Grade(1)
    \/ Rewrite(1)
    \/ Answer(1)
    \/ Respond(1)
    \/ Deliver(1)

SpecLoop == InitLoop /\ [][NextLoop]_vars

\* ---------------------------------------------------------- document store
\* Chunks the chunker can produce for a page-structured document, each with
\* its content length, its cosine similarity to the query in tenths (dense)
\* and its lexical match weight for the query (sparse; 0: no shared term).
TextChunk == [content_type |-> "text", content |-> 40, dense |-> 9, sparse |-> 0]

TableChunk == [content_type |-> "table", content |-> 30, dense |-> 4, sparse |-> 5]

FigureChunk == [content_type |-> "figure", content |-> 20, dense |-> 6, sparse |-> 0]

\* A chunk whose page_content is empty after strip().
BlankChunk == [content_type |-> "text", content |-> 0, dense |-> 0, sparse |-> 0]

\* Chunk lists chunk_markdown_document may return for a document.
Extractions ==
    {<<>>, <<BlankChunk>>, <<TextChunk>>, <<TableChunk, BlankChunk, FigureChunk>>}

\* index_document: the chunks with content, as uploaded (documents/payloads).
WithContent(chunk) == chunk.content > 0

Payloads(d, chunks) ==
    LET kept == SelectSeq(chunks, WithContent)
    IN  [i \in 1..Len(kept) |->
            [document_id |-> d, content_type |-> kept[i].content_type,
             content |-> kept[i].content, dense |-> kept[i].dense,
             sparse |-> kept[i].sparse]]

\* Number of stored points tagged with a document id.
PointCount(pts, d) ==
    Cardinality({i \in 1..Len(pts) : pts[i].document_id = d})

\* Document ids that have points: what the /ask controller's index holds.
DocumentsOf(pts) == {pts[i].document_id : i \in 1..Len(pts)}

DeletePoints_first(pts, d) ==
    LET tagged == {i \in 1..Len(pts) : pts[i].document_id = d}
    IN  IF tagged = {} THEN pts
        ELSE LET first == CHOOSE i \in tagged : \A j \in tagged : i <= j
             IN  SubSeq(pts, 1, first - 1) \o SubSeq(pts, first + 1, Len(pts))

DeletePoints_unfiltered(pts, d) == <<>>

\* client.delete with the document_id filter.
DeletePoints(pts, d) ==
    LET Other(p) == p.document_id # d IN SelectSeq(pts, Other)

\* ------------------------------------------------------------ query_points
\* Positions of S by decreasing score, upload order breaking ties.
RECURSIVE Ranked(_, _)
Ranked(S, score) ==
    IF S = {} THEN <<>>
    ELSE LET best == CHOOSE p \in S : \A q \in S :
                         \/ score[p] > score[q]
                         \/ score[p] = score[q] /\ p <= q
         IN  <<best>> \o Ranked(S \ {best}, score)

Matching_unfiltered(pts, document_id) == 1..Len(pts)

\* query_filter: the points matching the document_id condition, all points
\* when document_id is None (or empty).
Matching(pts, document_id) ==
    {p \in 1..Len(pts) :
        document_id = NoDocument \/ pts[p].document_id = document_id}

DenseScores(pts) == [p \in 1..Len(pts) |-> pts[p].dense]

SparseScores(pts) == [p \in 1..Len(pts) |-> pts[p].sparse]

\* Prefetch using "dense", limit = limit * 2.
DensePrefetch(pts, document_id, limit) ==
    Take(Ranked(Matching(pts, document_id), DenseScores(pts)), limit * 2)

\* Prefetch using "sparse", limit = limit * 2: points sharing a term.
SparsePrefetch(pts, document_id, limit) ==
    Take(Ranked({p \in Matching(pts, document_id) : pts[p].sparse > 0},
                SparseScores(pts)), limit * 2)

Range(seq) == {seq[i] : i \in 1..Len(seq)}

\* 1-based rank of a point in a ranking, 0 when absent.
RankOf(ranking, p) ==
    IF p \in Range(ranking)
    THEN CHOOSE i \in 1..Len(ranking) : ranking[i] = p
    ELSE 0

RECURSIVE Product(_, _)
Product(lo, hi) == IF lo > hi THEN 1 ELSE lo * Product(lo + 1, hi)

\* Scores are kept as integers: a fused score x stands for x / ScoreUnit.
ScoreUnit == Product(RrfK + 1, RrfK + 2 * MaxLimit)

RankContribution_ranksum(ranking, p) ==
    IF RankOf(ranking, p) = 0 THEN 0
    ELSE ScoreUnit \div (RrfK + Len(ranking) - RankOf(ranking, p) + 1)

\* Fusion.RRF: 1 / (k + rank) for a ranked point, 0 for an absent one.
RankContribution(ranking, p) ==
    IF RankOf(ranking, p) = 0 THEN 0
    ELSE ScoreUnit \div (RrfK + RankOf(ranking, p))

FusedScore(dense, sparse, p) ==
    RankContribution(dense, p) + RankContribution(sparse, p)

\* A returned point as hybrid_search / search_documents report it.
SearchResult(p, score, search_type) ==
    [chunk_id |-> p, score |-> score, search_type |-> search_type,
     document_id |-> points[p].document_id,
     content_type |-> points[p].content_type]

\* ----------------------------------------------------------------- searches
\* client.query_points with FusionQuery(RRF) over the two prefetches and the
\* document filter, top `limit`: the scored points of collection pts.
query_points_fusion(pts, document_id, limit) ==
    LET dense == DensePrefetch(pts, document_id, limit)
        sparse == SparsePrefetch(pts, document_id, limit)
        fused == [p \in 1..Len(pts) |-> FusedScore(dense, sparse, p)]
        top == Take(Ranked(Range(dense) \cup Range(sparse), fused), limit)
    IN  [i \in 1..Len(top) |-> [id |-> top[i], score |-> fused[top[i]]]]

\* client.query_points on the dense vector with the document filter and
\* score_threshold (tenths), top `limit`.
query_points_dense(pts, document_id, limit, score_threshold) ==
    LET hits == {p \in Matching(pts, document_id) : pts[p].dense >= score_threshold}
        top == Take(Ranked(hits, DenseScores(pts)), limit)
    IN  [i \in 1..Len(top) |-> [id |-> top[i], score |-> pts[top[i]].dense]]

\* QdrantOfficialHybridStore.hybrid_search: the fused query over the two
\* prefetches, top `limit`. chunk_types and score_threshold are accepted and
\* passed to nothing.
hybrid_search(document_id, chunk_types, limit, score_threshold) ==
    LET hits == query_points_fusion(points, document_id, limit)
    IN  [i \in 1..Len(hits) |->
            SearchResult(hits[i].id, hits[i].score, "official_hybrid_rrf")]

\* QdrantOfficialHybridStore.search_documents: dense-only query with the
\* document filter and score_threshold (tenths); chunk_types is not used.
search_documents(document_id, chunk_types, limit, score_threshold) ==
    LET hits == query_points_dense(points, document_id, limit, score_threshold)
    IN  [i \in 1..Len(hits) |->
            SearchResult(hits[i].id, hits[i].score, "dense_only_official")]

\* score_threshold = None
NoThreshold == -1

\* 0.3 if use_hybrid_search else 0.7, in tenths
HybridThreshold == 3

DenseThreshold == 7

\* Thresholds a caller passes: none, or 1.1 (in tenths).
Thresholds == {NoThreshold, 11}

\* chunk_types = ["text"] (+ "table") (+ "figure")
ChunkTypes(include_tables, include_figures) ==
    {"text"} \cup (IF include_tables THEN {"table"} ELSE {})
             \cup (IF include_figures THEN {"figure"} ELSE {})

\* document_processor.py imports no logging and binds no name `logger`.
LoggerDefined == FALSE

\* DocumentProcessor.search_document_content. primaryOk: the search chosen by
\* use_hybrid_search returns; fallbackOk: the dense-only search of the except
\* branch returns. The except branch first evaluates logger.warning, which
\* raises NameError when the module has no logger; the fallback search
\* below it is then not reached.
search_document_content(query, document_id, limit, include_tables, include_figures, use_hybrid_search, score_threshold, primaryOk, fallbackOk) ==
    LET chunk_types == ChunkTypes(include_tables, include_figures)
        threshold == IF score_threshold = NoThreshold
                     THEN (IF use_hybrid_search THEN HybridThreshold
                                                ELSE DenseThreshold)
                     ELSE score_threshold
        request == [op |-> "search", query |-> query, document_id |-> document_id,
                    chunk_types |-> chunk_types, limit |-> limit,
                    score_threshold |-> threshold,
                    use_hybrid_search |-> use_hybrid_search,
                    dense |-> IF use_hybrid_search /\ primaryOk
                              THEN DensePrefetch(points, document_id, limit) ELSE <<>>,
                    sparse |-> IF use_hybrid_search /\ primaryOk
                               THEN SparsePrefetch(points, document_id, limit) ELSE <<>>]
    IN  IF primaryOk
        THEN request @@
             [primary |-> "ok", fallback_calls |-> 0, outcome |-> "ok",
              error |-> "",
              results |-> IF use_hybrid_search
                          THEN hybrid_search(document_id, chunk_types, limit, threshold)
                          ELSE search_documents(document_id, chunk_types, limit, threshold)]
        ELSE IF ~LoggerDefined
        THEN request @@
             [primary |-> "raised", fallback_calls |-> 0, outcome |-> "raised",
              error |-> "NameError", results |-> <<>>]
        ELSE IF fallbackOk
        THEN request @@
             [primary |-> "raised", fallback_calls |-> 1, outcome |-> "ok",
              error |-> "",
              results |-> search_documents(document_id, chunk_types, limit,
                                           DenseThreshold)]
        ELSE request @@
             [primary |-> "raised", fallback_calls |-> 1, outcome |-> "raised",
              error |-> "Exception", results |-> <<>>]

SearchDocumentContent ==
    /\ \E document_id \in StoreDocs \cup {NoDocument}, limit \in 1..MaxLimit,
          include_tables \in BOOLEAN, include_figures \in BOOLEAN,
          use_hybrid_search \in BOOLEAN, score_threshold \in Thresholds,
          primaryOk \in BOOLEAN, fallbackOk \in BOOLEAN :
          reply' = search_document_content("q", document_id, limit, include_tables,
                                           include_figures, use_hybrid_search,
                                           score_threshold, primaryOk, fallbackOk)
    /\ UNCHANGED <<points, records, ledger, ragVars, ingestVars>>

\* -------------------------------------------------------- store operations
\* POST /upload: the document's row is created.
UploadDocument(d) ==
    /\ d \notin records
    /\ records' = records \cup {d}
    /\ reply' = [op |-> "upload", document_id |-> d]
    /\ UNCHANGED <<points, ledger, ragVars, ingestVars>>

index_document_replacing(d, chunks, uploadOk) ==
    LET payloads == Payloads(d, chunks)
    IN  IF payloads = <<>>
        THEN [points |-> points, outcome |-> "ok", count |-> 0]
        ELSE IF uploadOk
        THEN [points |-> DeletePoints(points, d) \o payloads, outcome |-> "ok",
              count |-> Len(payloads)]
        ELSE [points |-> points, outcome |-> "raised", count |-> 0]

\* index_document: 0 when no chunk has content; otherwise the chunks with
\* content are uploaded as new points and their number is returned; a failing
\* upload raises.
index_document(d, chunks, uploadOk) ==
    LET payloads == Payloads(d, chunks)
    IN  IF payloads = <<>>
        THEN [points |-> points, outcome |-> "ok", count |-> 0]
        ELSE IF uploadOk
        THEN [points |-> points \o payloads, outcome |-> "ok",
              count |-> Len(payloads)]
        ELSE [points |-> points, outcome |-> "raised", count |-> 0]

\* process_document / reprocess_document of an uploaded document, up to the
\* indexing step: nothing is deleted first.
ProcessDocument(d) ==
    /\ d \in records
    /\ \E chunks \in Extractions, uploadOk \in BOOLEAN :
        LET done == index_document(d, chunks, uploadOk) IN
        /\ Len(done.points) <= MaxPoints
        /\ points' = done.points
        /\ ledger' = [ledger EXCEPT ![d] = @ + done.count]
        /\ reply' = [op |-> "index", document_id |-> d,
                     outcome |-> done.outcome, count |-> done.count]
        /\ index' = DocumentsOf(done.points)
    /\ UNCHANGED <<records, graph, has_documents, rag_ready, checkpointer,
                   last_retrieved_docs, calls, nAsks, recursion_limit, ingestVars>>

\* QdrantOfficialHybridStore.delete_document: True when client.delete
\* returned (the filtered delete was applied), False when it raised.
delete_document(d, qdrantOk) ==
    [points |-> IF qdrantOk THEN DeletePoints(points, d) ELSE points,
     success |-> qdrantOk]

\* DocumentProcessor.delete_document_content: the vector-store delete, then
\* the database delete whatever the first one did. DocumentsDto.delete_document
\* raises when the row is missing.
DeleteDocumentContent(d) ==
    /\ \E qdrantOk \in BOOLEAN, dbOk \in BOOLEAN :
        LET qdrant == delete_document(d, qdrantOk)
            database_success == dbOk /\ d \in records
        IN  /\ points' = qdrant.points
            /\ records' = IF database_success THEN records \ {d} ELSE records
            /\ ledger' = IF qdrant.success THEN [ledger EXCEPT ![d] = 0] ELSE ledger
            /\ reply' = [op |-> "delete", document_id |-> d,
                         qdrant_success |-> qdrant.success,
                         database_success |-> database_success,
                         overall_success |-> qdrant.success /\ database_success,
                         removed |-> PointCount(points, d) - PointCount(qdrant.points, d)]
            /\ index' = DocumentsOf(qdrant.points)
    /\ UNCHANGED <<graph, has_documents, rag_ready, checkpointer,
                   last_retrieved_docs, calls, nAsks, recursion_limit, ingestVars>>

NextStore ==
    \/ \E d \in StoreDocs : UploadDocument(d)
    \/ \E d \in StoreDocs : ProcessDocument(d)
    \/ \E d \in StoreDocs : DeleteDocumentContent(d)

\* Uploads, indexing and deletes of documents, with no /ask request in flight.
SpecStore == Init /\ [][NextStore]_vars

\* What one index call can add to the collection.
Uploads == {Payloads(d, chunks) : d \in StoreDocs, chunks \in Extractions} \ {<<>>}

\* Collections that index calls build: up to n uploads one after the other
\* (a delete leaves the uploads of the other documents).
RECURSIVE Collections(_)
Collections(n) ==
    IF n = 0 THEN {<<>>}
    ELSE LET shorter == Collections(n - 1)
         IN  shorter \cup {c \o u : c \in shorter, u \in Uploads}

\* One search over a collection that index calls have built.
InitSearch ==
    /\ points \in {c \in Collections(MaxPoints) : Len(c) <= MaxPoints}
    /\ index = DocumentsOf(points)
    /\ records = DocumentsOf(points)
    /\ ledger = [d \in StoreDocs |-> PointCount(points, d)]
    /\ reply = NoReply
    /\ IngestIdle
    /\ graph = "none"
    /\ has_documents = FALSE
    /\ rag_ready = FALSE
    /\ checkpointer = [t \in ThreadIds |-> <<>>]
    /\ last_retrieved_docs = <<>>
    /\ calls = [c \in AskIds |-> IdleCall]
    /\ nAsks = 0
    /\ recursion_limit = StepLimit

NextSearch == reply = NoReply /\ SearchDocumentContent

SpecSearch == InitSearch /\ [][NextSearch]_vars

\* ------------------------------------------------------------------ chunker
\* Runs of the chunker made on one document.
MaxRuns == 2

\* Pages of a document handed to the chunker.
MaxDocPages == 2

\* MarkdownDocumentChunker(...) as QdrantOfficialHybridStore configures it.
base_chunk_size == 1200

chunk_overlap == 150

min_chunk_size == 100

table_max_size == 3000

\* len("\n\n"), the paragraph separator of every splitter.
ParagraphBreakLen == 2

\* len("Table 1: "), for the first nine tables of a page.
TableLabelLen == 9

\* len("Caption: ")
CaptionLabelLen == 9

\* len("Figure: ")
FigureLabelLen == 8

\* len("Description: ")
DescriptionLabelLen == 13

\* A key of a dict: missing, present with None, or present with a value.
Absent == [tag |-> "absent"]

Null == [tag |-> "null"]

Val(v) == [tag |-> "value", value |-> v]

\* dict.get(key, default): the default only when the key is missing.
Get(field, default) == IF field.tag = "absent" THEN Val(default) ELSE field

\* A string: `lead` whitespace characters, paragraphs joined by "\n\n", and
\* `trail` whitespace characters. A paragraph has a label and a length and
\* neither starts nor ends with whitespace.
EmptyText == [lead |-> 0, paragraphs |-> <<>>, trail |-> 0]

Paragraph(text, len) == [text |-> text, len |-> len]

Paragraphs(ps) == [lead |-> 0, paragraphs |-> ps, trail |-> 0]

RECURSIVE ParagraphsLen(_)
ParagraphsLen(ps) ==
    IF ps = <<>> THEN 0
    ELSE Head(ps).len + (IF Len(ps) > 1 THEN ParagraphBreakLen ELSE 0)
         + ParagraphsLen(Tail(ps))

\* len(s)
TextLen(t) == t.lead + ParagraphsLen(t.paragraphs) + t.trail

\* s.strip()
Strip(t) == IF t.paragraphs = <<>> THEN EmptyText ELSE [t EXCEPT !.lead = 0, !.trail = 0]

\* `field or ""` for a string field already read with .get(key)
OrEmpty(field) == IF field.tag = "value" THEN field.value ELSE EmptyText

\* `field or []` for a list field
OrNoItems(field) == IF field.tag = "value" THEN field.value ELSE <<>>

\* Truth value of a title or caption, a string held as its length.
Given(field) == field.tag = "value" /\ field.value > 0

RECURSIVE Concat(_)
Concat(seqs) == IF seqs = <<>> THEN <<>> ELSE Head(seqs) \o Concat(Tail(seqs))

\* ---------------------------------------------------------------- splitters
\* RecursiveCharacterTextSplitter(chunk_size, chunk_overlap), separators kept
\* at the start of the split that follows them.
text_splitter == [chunk_size |-> base_chunk_size, chunk_overlap |-> chunk_overlap]

technical == [chunk_size |-> 1500, chunk_overlap |-> 200]

narrative == [chunk_size |-> 1000, chunk_overlap |-> 150]

\* _merge_splits, the popping loop after a piece was emitted: splits are
\* dropped from the front while more than the overlap is kept or the next
\* split still does not fit.
RECURSIVE PopSplits(_, _, _, _, _)
PopSplits(lens, cur, total, next, splitter) ==
    IF \/ total > splitter.chunk_overlap
       \/ (total + next > splitter.chunk_size /\ total > 0)
    THEN PopSplits(lens, Tail(cur), total - lens[Head(cur)], next, splitter)
    ELSE [cur |-> cur, total |-> total]

\* _merge_splits with separator "": the pieces, each the indices of the
\* splits joined into it.
RECURSIVE MergeSplits(_, _, _, _, _)
MergeSplits(lens, i, cur, total, splitter) ==
    IF i > Len(lens) THEN (IF cur = <<>> THEN <<>> ELSE <<cur>>)
    ELSE IF total + lens[i] > splitter.chunk_size /\ cur # <<>>
    THEN LET kept == PopSplits(lens, cur, total, lens[i], splitter)
         IN  <<cur>> \o MergeSplits(lens, i + 1, Append(kept.cur, i),
                                    kept.total + lens[i], splitter)
    ELSE MergeSplits(lens, i + 1, Append(cur, i), total + lens[i], splitter)

\* splitter.split_text(text) for a text whose paragraphs are each shorter
\* than the chunk size: the text is split at "\n\n" and the splits are
\* merged; every piece is stripped.
split_text(splitter, text) ==
    LET ps == text.paragraphs
        lens == [i \in 1..Len(ps) |->
                    ps[i].len + (IF i = 1 THEN text.lead ELSE ParagraphBreakLen)
                              + (IF i = Len(ps) THEN text.trail ELSE 0)]
        pieces == MergeSplits(lens, 1, <<>>, 0, splitter)
    IN  [k \in 1..Len(pieces) |->
            Paragraphs([j \in 1..Len(pieces[k]) |-> ps[pieces[k][j]]])]

\* ------------------------------------------------------------------ chunks
\* A Document the chunker returns: page_content and the metadata that place
\* it. unit_index is table_index or figure_index (-1 for text);
\* is_complete_table is "absent" where the metadata has no such key.
Chunk(page_content, content_type, page_idx, chunk_idx, unit_idx, language, complete) ==
    [page_content |-> page_content, content_type |-> content_type,
     page_number |-> page_idx, chunk_index |-> chunk_idx,
     unit_index |-> unit_idx, language |-> language,
     chunk_size |-> TextLen(page_content), is_complete_table |-> complete,
     chunk_id |-> <<>>]

\* page_metadata.get("language", "en")
Language(page_metadata) ==
    LET language == Get(page_metadata.language, "en")
    IN  IF language.tag = "null" THEN "None" ELSE language.value

\* page.get("markdown_content", "") or page.get("content", ""): a string, or
\* None when the content key holds None and there is no markdown text.
AnalysedContent(page) ==
    LET markdown_content == Get(page.markdown_content, EmptyText)
    IN  IF markdown_content.tag = "value" /\ TextLen(markdown_content.value) > 0
        THEN markdown_content
        ELSE Get(page.content, EmptyText)

RECURSIVE Sum(_)
Sum(numbers) == IF numbers = <<>> THEN 0 ELSE Head(numbers) + Sum(Tail(numbers))

\* _analyze_document_complexity; content.lower() raises on None. The texts
\* handed in hold no heading mark.
analyze_document_complexity(pages) ==
    LET total_pages == IF Len(pages) > 1 THEN Len(pages) ELSE 1
        table_count == Sum([i \in 1..Len(pages) |-> Len(OrNoItems(pages[i].tables))])
        figure_count == Sum([i \in 1..Len(pages) |-> Len(OrNoItems(pages[i].figures))])
        units == table_count + figure_count
    IN  [raised |-> \E i \in 1..Len(pages) : AnalysedContent(pages[i]).tag = "null",
         total_length |->
             Sum([i \in 1..Len(pages) |-> TextLen(OrEmpty(AnalysedContent(pages[i])))]),
         total_pages |-> total_pages,
         is_structured_document |-> 2 * units > total_pages]

\* The splitter _chunk_text_content_adaptive picks: avg_words_per_page is
\* total_length / pages / 5, compared with 800 and 400.
Splitter(doc_analysis) ==
    IF \/ doc_analysis.is_structured_document
       \/ doc_analysis.total_length > 800 * 5 * doc_analysis.total_pages
    THEN technical
    ELSE IF doc_analysis.total_length < 400 * 5 * doc_analysis.total_pages
    THEN narrative
    ELSE text_splitter

\* _chunk_text_content_adaptive: the pieces of the page text, those shorter
\* than min_chunk_size after strip() left out.
chunk_text_content_adaptive(content, page_idx, language, doc_analysis) ==
    LET text_chunks == split_text(Splitter(doc_analysis), content)
        all == [k \in 1..Len(text_chunks) |->
                   Chunk(text_chunks[k], "text", page_idx, k - 1, -1, language, "absent")]
        LongEnough(chunk) == TextLen(Strip(chunk.page_content)) >= min_chunk_size
    IN  SelectSeq(all, LongEnough)

\* full_table_content: the title line, the caption line, a line break and
\* the stripped body.
FullTableContent(table_title, table_caption, table_content) ==
    LET title == IF Given(table_title) THEN TableLabelLen + table_title.value + 1 ELSE 0
        caption == IF Given(table_caption)
                   THEN CaptionLabelLen + table_caption.value + 1 ELSE 0
        body == table_content.paragraphs
    IN  IF title + caption = 0
        THEN [lead |-> 1, paragraphs |-> body, trail |-> 0]
        ELSE [lead |-> 0,
              paragraphs |-> <<Paragraph("table header", title + caption - 1)>> \o body,
              trail |-> IF body = <<>> THEN ParagraphBreakLen ELSE 0]

\* _chunk_table_preserving: nothing for a table without body; one complete
\* chunk up to table_max_size; the pieces of text_splitter beyond it.
\* table_metadata.get raises when the table's metadata is None.
chunk_table_preserving(table, table_idx, page_idx, language) ==
    LET table_metadata == Get(table.metadata, [title |-> Absent, caption |-> Absent])
        table_content == Strip(OrEmpty(table.content))
    IN  IF table_metadata.tag = "null" THEN [raised |-> TRUE, chunks |-> <<>>]
        ELSE IF table_content = EmptyText THEN [raised |-> FALSE, chunks |-> <<>>]
        ELSE LET full_table_content ==
                     FullTableContent(table_metadata.value.title,
                                      table_metadata.value.caption, table_content)
                 table_chunks == split_text(text_splitter, full_table_content)
             IN  [raised |-> FALSE,
                  chunks |->
                     IF TextLen(full_table_content) <= table_max_size
                     THEN <<Chunk(full_table_content, "table", page_idx, 0,
                                  table_idx, language, "True")>>
                     ELSE [k \in 1..Len(table_chunks) |->
                              Chunk(table_chunks[k], "table", page_idx, k - 1,
                                    table_idx, language, "False")]]

\* full_figure_content: title, caption and description lines.
FullFigureContent(figure) ==
    LET title == IF Given(figure.title) THEN FigureLabelLen + figure.title.value + 1 ELSE 0
        caption == IF Given(figure.caption)
                   THEN CaptionLabelLen + figure.caption.value + 1 ELSE 0
        description == IF Given(figure.content)
                       THEN DescriptionLabelLen + figure.content.value ELSE 0
    IN  IF title + caption + description = 0 THEN EmptyText
        ELSE IF description = 0
        THEN [lead |-> 0, paragraphs |-> <<Paragraph("figure", title + caption - 1)>>,
              trail |-> 1]
        ELSE Paragraphs(<<Paragraph("figure", title + caption + description)>>)

\* _chunk_figure: one chunk, or None for a figure without any text.
chunk_figure(figure, figure_idx, page_idx, language) ==
    LET full_figure_content == FullFigureContent(figure)
    IN  IF Strip(full_figure_content) = EmptyText THEN <<>>
        ELSE <<Chunk(full_figure_content, "figure", page_idx, 0, figure_idx,
                     language, "absent")>>

\* _chunk_page: text chunks, then the chunks of each table, then one per
\* figure; None entries are skipped. page_metadata.get raises when the
\* page's metadata is None.
chunk_page(page, page_idx, doc_analysis) ==
    LET page_metadata == Get(page.metadata, [language |-> Absent])
        language == Language(page_metadata.value)
        markdown_content == Strip(OrEmpty(page.markdown_content))
        page_content == IF markdown_content # EmptyText THEN markdown_content
                        ELSE Strip(OrEmpty(page.content))
        tables == OrNoItems(page.tables)
        figures == OrNoItems(page.figures)
        table_chunks == [t \in 1..Len(tables) |->
                            IF tables[t].tag = "null"
                            THEN [raised |-> FALSE, chunks |-> <<>>]
                            ELSE chunk_table_preserving(tables[t].value, t - 1,
                                                        page_idx, language)]
        figure_chunks == [f \in 1..Len(figures) |->
                             IF figures[f].tag = "null" THEN <<>>
                             ELSE chunk_figure(figures[f].value, f - 1, page_idx,
                                               language)]
    IN  IF page_metadata.tag = "null" THEN [raised |-> TRUE, chunks |-> <<>>]
        ELSE [raised |-> \E t \in 1..Len(tables) : table_chunks[t].raised,
              chunks |->
                  (IF page_content = EmptyText THEN <<>>
                   ELSE chunk_text_content_adaptive(page_content, page_idx,
                                                    language, doc_analysis))
                  \o Concat([t \in 1..Len(tables) |-> table_chunks[t].chunks])
                  \o Concat(figure_chunks)]

\* Values str(uuid.uuid4()) can start from in one run of the chunker.
UuidSeeds == {"a", "b"}

\* chunk_id = str(uuid.uuid4()): a fresh random value for every chunk.
WithChunkIds(chunks, seed) ==
    [k \in 1..Len(chunks) |-> [chunks[k] EXCEPT !.chunk_id = <<seed, k>>]]

\* chunk_markdown_document: the chunks of all pages in page order, or the
\* exception of the first step that raised.
chunk_markdown_document(pages, seed) ==
    LET doc_analysis == analyze_document_complexity(pages)
        page_chunks == [i \in 1..Len(pages) |-> chunk_page(pages[i], i - 1, doc_analysis)]
    IN  IF doc_analysis.raised \/ \E i \in 1..Len(pages) : page_chunks[i].raised
        THEN [outcome |-> "raised", chunks |-> <<>>]
        ELSE [outcome |-> "ok",
              chunks |-> WithChunkIds(
                  Concat([i \in 1..Len(pages) |-> page_chunks[i].chunks]), seed)]

\* -------------------------------------------------------- chunker's inputs
PageMetadata == Val([language |-> Val("en")])

Page(metadata, markdown_content, content, tables, figures) ==
    [metadata |-> metadata, markdown_content |-> markdown_content,
     content |-> content, tables |-> tables, figures |-> figures]

\* A page of 50 characters.
ShortPage ==
    Page(PageMetadata, Val(Paragraphs(<<Paragraph("note", 50)>>)), Val(EmptyText),
         Val(<<>>), Val(<<>>))

\* A page of four paragraphs, the last one short.
LongPage ==
    Page(PageMetadata,
         Val(Paragraphs(<<Paragraph("intro", 600), Paragraph("aside", 50),
                          Paragraph("body", 990), Paragraph("coda", 60)>>)),
         Val(EmptyText), Val(<<>>), Val(<<>>))

\* A page whose metadata is None.
NullMetadataPage ==
    Page(Null, Val(Paragraphs(<<Paragraph("text", 150)>>)), Val(EmptyText),
         Val(<<>>), Val(<<>>))

\* A page without any key.
AbsentPage == Page(Absent, Absent, Absent, Absent, Absent)

\* A page whose keys all hold None.
NullPage == Page(Null, Null, Null, Null, Null)

Table(metadata, content) == [metadata |-> metadata, content |-> content]

Figure(title, caption, content) == [title |-> title, caption |-> caption, content |-> content]

\* A short table with a title, a None entry, a titled table without body; a
\* figure with a title only, a None entry, a figure whose fields are None.
TablePage ==
    Page(PageMetadata, Absent, Val(EmptyText),
         Val(<<Val(Table(Val([title |-> Val(12), caption |-> Null]),
                         Val(Paragraphs(<<Paragraph("rows", 40)>>)))),
               Null,
               Val(Table(Val([title |-> Val(12), caption |-> Val(20)]), Val(EmptyText)))>>),
         Val(<<Val(Figure(Val(10), Null, Absent)), Null, Val(Figure(Null, Null, Null))>>))

\* A table beyond table_max_size: three long blocks of rows and a footnote.
BigTablePage ==
    Page(PageMetadata, Val(EmptyText), Val(EmptyText),
         Val(<<Val(Table(Absent,
                         Val(Paragraphs(<<Paragraph("rows 1", 1190), Paragraph("rows 2", 1190),
                                          Paragraph("rows 3", 1190),
                                          Paragraph("footnote", 50)>>))))>>),
         Null)

\* A table whose metadata is None.
NullTableMetadataPage ==
    Page(PageMetadata, Absent, Val(Paragraphs(<<Paragraph("text", 150)>>)),
         Val(<<Val(Table(Null, Val(Paragraphs(<<Paragraph("rows", 40)>>))))>>),
         Absent)

SamplePages ==
    {ShortPage, LongPage, NullMetadataPage, AbsentPage, NullPage, TablePage,
     BigTablePage, NullTableMetadataPage}

RECURSIVE SeqsUpTo(_, _)
SeqsUpTo(S, n) ==
    IF n = 0 THEN {<<>>}
    ELSE LET shorter == SeqsUpTo(S, n - 1)
         IN  shorter \cup {Append(q, x) : q \in shorter, x \in S}

\* ----------------------------------------------------------- chunker runs
\* One more run of the chunker on the document.
ChunkMarkdownDocument ==
    /\ Len(chunking.runs) < MaxRuns
    /\ \E seed \in UuidSeeds :
        chunking' = [chunking EXCEPT !.runs =
                        Append(@, chunk_markdown_document(chunking.document, seed))]
    /\ UNCHANGED <<ragVars, storeVars, extraction, batch>>

\* The chunker is given a document of up to MaxDocPages pages.
InitChunk ==
    /\ chunking \in {[document |-> pages, runs |-> <<>>] :
                        pages \in SeqsUpTo(SamplePages, MaxDocPages)}
    /\ extraction = NoExtraction
    /\ batch = NoBatch
    /\ index = {}
    /\ graph = "none"
    /\ has_documents = FALSE
    /\ rag_ready = FALSE
    /\ checkpointer = [t \in ThreadIds |-> <<>>]
    /\ last_retrieved_docs = <<>>
    /\ calls = [c \in AskIds |-> IdleCall]
    /\ nAsks = 0
    /\ recursion_limit = StepLimit
    /\ points = <<>>
    /\ records = {}
    /\ ledger = [d \in StoreDocs |-> 0]
    /\ reply = NoReply

NextChunk == ChunkMarkdownDocument

SpecChunk == InitChunk /\ [][NextChunk]_vars

\* ---------------------------------------------------------- page extraction
\* Pages of the document whose content is extracted.
MaxPages == 5

\* batch_size = 3
BatchSize == 3

\* Length of the content of the page returned for a failed extraction (for
\* the first nine pages).
PlaceholderLen == 115

\* "OpenAI Vision extraction failed for page N. This could be due to ..."
FailureText == Paragraphs(<<Paragraph("extraction failed", PlaceholderLen)>>)

\* The MarkdownPage _extract_page_content returns from its except branch, as
\* markdown_document.dict() holds it.
FailurePage == Page(PageMetadata, Val(EmptyText), Val(FailureText), Val(<<>>), Val(<<>>))

\* A page as the vision model returns it: markdown text, no table or figure.
ExtractedPage ==
    Page(PageMetadata, Val(Paragraphs(<<Paragraph("page text", 300)>>)),
         Val(EmptyText), Val(<<>>), Val(<<>>))

\* _extract_page_content for image p: the model's page, or the failure page
\* when the request raised.
extract_page_content(p, ok) ==
    [image |-> p, failed |-> ~ok, page |-> IF ok THEN ExtractedPage ELSE FailurePage]

BatchOf_all(i, n) == {p \in 0..(n - 1) : i <= p}

\* images[i : i + batch_size], as page numbers
BatchOf(i, n) == {p \in 0..(n - 1) : i <= p /\ p < i + BatchSize}

\* extract_document_content is called for a document of n pages.
Extracting(n) ==
    [pc |-> "start", n |-> n, i |-> 0, slept |-> 0,
     tasks |-> [p \in 0..(n - 1) |-> "idle"],
     results |-> [p \in 0..(n - 1) |-> <<>>],
     pages |-> <<>>, total_pages |-> 0, total_chunks |-> 0]

\* _pdf_to_images; an unreadable file makes extract_document_content raise.
OpenDocument ==
    /\ extraction.pc = "start"
    /\ \E ok \in BOOLEAN :
        extraction' = [extraction EXCEPT !.pc =
            IF ~ok THEN "raised" ELSE IF extraction.n = 0 THEN "return" ELSE "batch"]
    /\ UNCHANGED <<ragVars, storeVars, chunking, batch>>

\* One round of the loop up to `await asyncio.gather(*tasks)`: a task per
\* page of the batch is scheduled.
StartBatch ==
    /\ extraction.pc = "batch"
    /\ extraction' = [extraction EXCEPT
           !.pc = "gather",
           !.tasks = [p \in 0..(extraction.n - 1) |->
                         IF p \in BatchOf(extraction.i, extraction.n)
                         THEN "scheduled" ELSE extraction.tasks[p]]]
    /\ UNCHANGED <<ragVars, storeVars, chunking, batch>>

\* A scheduled _extract_page_content sends its request.
StartPage(p) ==
    /\ extraction.pc = "gather"
    /\ extraction.tasks[p] = "scheduled"
    /\ extraction' = [extraction EXCEPT !.tasks[p] = "running"]
    /\ UNCHANGED <<ragVars, storeVars, chunking, batch>>

\* The request of a page returns or raises; either way the task returns a
\* page.
FinishPage(p) ==
    /\ extraction.pc = "gather"
    /\ extraction.tasks[p] = "running"
    /\ \E ok \in BOOLEAN :
        extraction' = [extraction EXCEPT !.tasks[p] = "done",
                                         !.results[p] = <<extract_page_content(p, ok)>>]
    /\ UNCHANGED <<ragVars, storeVars, chunking, batch>>

RECURSIVE InOrder(_)
InOrder(S) ==
    IF S = {} THEN <<>>
    ELSE LET least == CHOOSE p \in S : \A q \in S : p <= q
         IN  <<least>> \o InOrder(S \ {least})

\* gather returned: the batch's pages are appended in task order; the loop
\* sleeps when more images are left.
CollectBatch ==
    /\ extraction.pc = "gather"
    /\ \A p \in 0..(extraction.n - 1) : extraction.tasks[p] \in {"idle", "done"}
    /\ LET order == InOrder({p \in 0..(extraction.n - 1) :
                                extraction.i <= p /\ extraction.tasks[p] = "done"})
       IN  extraction' = [extraction EXCEPT
               !.pages = @ \o Concat([k \in 1..Len(order) |-> extraction.results[order[k]]]),
               !.pc = IF extraction.i + BatchSize < extraction.n THEN "sleep" ELSE "return"]
    /\ UNCHANGED <<ragVars, storeVars, chunking, batch>>

\* await asyncio.sleep(1) is over; the next round starts at i + batch_size.
Wake ==
    /\ extraction.pc = "sleep"
    /\ extraction' = [extraction EXCEPT !.pc = "batch", !.i = @ + BatchSize,
                                        !.slept = @ + 1]
    /\ UNCHANGED <<ragVars, storeVars, chunking, batch>>

\* OpenAIExtractionResponse(markdown_document, total_pages = len(pages), ...)
ReturnExtraction ==
    /\ extraction.pc = "return"
    /\ extraction' = [extraction EXCEPT !.pc = "extracted",
                                        !.total_pages = Len(extraction.pages)]
    /\ UNCHANGED <<ragVars, storeVars, chunking, batch>>

\* index_document on chunker output: one payload per chunk whose stripped
\* content is non-empty.
ChunkPayloads(d, chunks) ==
    LET HasContent(chunk) == Strip(chunk.page_content) # EmptyText
        kept == SelectSeq(chunks, HasContent)
    IN  [k \in 1..Len(kept) |->
            [document_id |-> d, content_type |-> kept[k].content_type,
             content |-> Strip(kept[k].page_content),
             page_number |-> kept[k].page_number,
             chunk_index |-> kept[k].chunk_index, chunk_id |-> kept[k].chunk_id]]

\* has_text or has_tables or has_figures
HasPageContent(page) ==
    \/ Strip(OrEmpty(IF page.markdown_content.tag = "value"
                        /\ page.markdown_content.value # EmptyText
                     THEN page.markdown_content ELSE page.content)) # EmptyText
    \/ OrNoItems(page.tables) # <<>>
    \/ OrNoItems(page.figures) # <<>>

\* process_document after the extraction returned: when some page has
\* content the whole document is chunked and indexed; an indexing failure is
\* caught and counts as zero chunks.
IndexExtraction(d) ==
    /\ extraction.pc = "extracted"
    /\ \E seed \in UuidSeeds, uploadOk \in BOOLEAN :
        LET pages == [k \in 1..Len(extraction.pages) |-> extraction.pages[k].page]
            chunked == chunk_markdown_document(pages, seed)
            payloads == IF \E k \in 1..Len(pages) : HasPageContent(pages[k])
                        THEN ChunkPayloads(d, chunked.chunks) ELSE <<>>
            stored == IF uploadOk THEN payloads ELSE <<>>
        IN  /\ points' = points \o stored
            /\ index' = DocumentsOf(points \o stored)
            /\ ledger' = [ledger EXCEPT ![d] = @ + Len(stored)]
            /\ extraction' = [extraction EXCEPT !.pc = "processed",
                                                !.total_chunks = Len(stored)]
    /\ UNCHANGED <<graph, has_documents, rag_ready, checkpointer,
                   last_retrieved_docs, calls, nAsks, recursion_limit,
                   records, reply, chunking, batch>>

\* process_document of uploaded document d1, of up to MaxPages pages.
InitExtract ==
    /\ extraction \in {Extracting(n) : n \in 0..MaxPages}
    /\ chunking = NoChunking
    /\ batch = NoBatch
    /\ index = {}
    /\ graph = "none"
    /\ has_documents = FALSE
    /\ rag_ready = FALSE
    /\ checkpointer = [t \in ThreadIds |-> <<>>]
    /\ last_retrieved_docs = <<>>
    /\ calls = [c \in AskIds |-> IdleCall]
    /\ nAsks = 0
    /\ recursion_limit = StepLimit
    /\ points = <<>>
    /\ records = {"d1"}
    /\ ledger = [d \in StoreDocs |-> 0]
    /\ reply = NoReply

NextExtract ==
    \/ OpenDocument
    \/ StartBatch
    \/ \E p \in 0..(extraction.n - 1) : StartPage(p)
    \/ \E p \in 0..(extraction.n - 1) : FinishPage(p)
    \/ CollectBatch
    \/ Wake
    \/ ReturnExtraction
    \/ IndexExtraction("d1")

SpecExtract == InitExtract /\ [][NextExtract]_vars

\* ------------------------------------------------------------ batch ingest
\* Documents handed to one process_document_batch call.
MaxBatch == 2

\* A task that has not returned yet.
NoOutcome == [kind |-> "none", success |-> FALSE, document_id |-> NoDocument,
              total_chunks |-> 0]

\* The dict process_document returns after its last step.
SuccessDict(d, total_chunks) ==
    [kind |-> "dict", success |-> TRUE, document_id |-> d, total_chunks |-> total_chunks]

\* The dict process_document returns from its except branch.
FailureDict(d) ==
    [kind |-> "dict", success |-> FALSE, document_id |-> d, total_chunks |-> 0]

\* An exception that left process_document, as gather hands it back.
ExceptionObject ==
    [kind |-> "exception", success |-> FALSE, document_id |-> NoDocument,
     total_chunks |-> 0]

\* The except branch of process_document: the status is set to "failed" and
\* the failure dict is returned; when that update raises too (no row, or the
\* database is down) the exception leaves process_document.
ExceptBranch(d, dbOk) ==
    IF d \in records /\ dbOk
    THEN [status |-> "failed", result |-> FailureDict(d)]
    ELSE [status |-> "unchanged", result |-> ExceptionObject]

SetStatus(statuses, d, status) ==
    IF status = "unchanged" THEN statuses ELSE [statuses EXCEPT ![d] = status]

gather_first_exception(results) ==
    IF \E i \in 1..Len(results) : results[i].kind = "exception"
    THEN [raised |-> TRUE, results |-> <<>>]
    ELSE [raised |-> FALSE, results |-> results]

\* asyncio.gather(*tasks, return_exceptions=True): the tasks' results and
\* exceptions in task order, once every task is done.
gather(results) == [raised |-> FALSE, results |-> results]

\* process_document_batch is called with the ids and n_paths file paths.
Batch(document_ids, n_paths) ==
    [pc |-> "called", document_ids |-> document_ids, n_paths |-> n_paths,
     tasks |-> [i \in 1..Len(document_ids) |->
                   [pc |-> "none", fault |-> FALSE, result |-> NoOutcome]],
     status |-> [d \in StoreDocs |-> "pending"],
     response |-> [pc |-> "none"]]

\* process_document_batch up to `await asyncio.gather`: ValueError when the
\* lists differ in length, otherwise one task per document.
StartBatchProcessing ==
    /\ batch.pc = "called"
    /\ batch' = IF Len(batch.document_ids) # batch.n_paths
                THEN [batch EXCEPT !.pc = "raised"]
                ELSE [batch EXCEPT !.pc = "gather",
                         !.tasks = [i \in 1..Len(batch.document_ids) |->
                                       [batch.tasks[i] EXCEPT !.pc = "scheduled"]]]
    /\ UNCHANGED <<ragVars, storeVars, chunking, extraction>>

\* process_document up to `await extract_document_content`: the status is set
\* to "processing"; if that raises, the except branch ends the task.
TaskStart(i) ==
    /\ batch.pc = "gather"
    /\ batch.tasks[i].pc = "scheduled"
    /\ \E dbOk \in BOOLEAN, handlerOk \in BOOLEAN :
        LET d == batch.document_ids[i]
            failed == ExceptBranch(d, handlerOk)
        IN  batch' =
              IF d \in records /\ dbOk
              THEN [batch EXCEPT !.tasks[i].pc = "extracting",
                                 !.status = SetStatus(@, d, "processing")]
              ELSE [batch EXCEPT !.tasks[i] = [pc |-> "done", fault |-> TRUE,
                                               result |-> failed.result],
                                 !.status = SetStatus(@, d, failed.status)]
    /\ UNCHANGED <<ragVars, storeVars, chunking, extraction>>

\* process_document after the extraction: an extraction failure goes to the
\* except branch; otherwise the document is indexed (an indexing failure
\* counts as zero chunks), status and metadata are updated, and the success
\* dict is returned; a failing update goes to the except branch.
TaskResume(i) ==
    /\ batch.pc = "gather"
    /\ batch.tasks[i].pc = "extracting"
    /\ \E extracted \in BOOLEAN, chunks \in Extractions, uploadOk \in BOOLEAN,
          dbOk \in BOOLEAN, handlerOk \in BOOLEAN :
        LET d == batch.document_ids[i]
            done == index_document(d, chunks, uploadOk)
            failed == ExceptBranch(d, handlerOk)
        IN  /\ Len(done.points) <= MaxPoints
            /\ points' = IF extracted THEN done.points ELSE points
            /\ index' = DocumentsOf(IF extracted THEN done.points ELSE points)
            /\ ledger' = IF extracted THEN [ledger EXCEPT ![d] = @ + done.count]
                         ELSE ledger
            /\ batch' =
                 IF extracted /\ dbOk
                 THEN [batch EXCEPT !.tasks[i] =
                                        [pc |-> "done", fault |-> FALSE,
                                         result |-> SuccessDict(d, done.count)],
                                    !.status = SetStatus(@, d, "completed")]
                 ELSE [batch EXCEPT !.tasks[i] = [pc |-> "done", fault |-> TRUE,
                                                  result |-> failed.result],
                                    !.status = SetStatus(@, d, failed.status)]
    /\ UNCHANGED <<graph, has_documents, rag_ready, checkpointer,
                   last_retrieved_docs, calls, nAsks, recursion_limit,
                   records, reply, chunking, extraction>>

\* gather returned: the results are counted and the summary is returned.
ReturnBatch ==
    /\ batch.pc = "gather"
    /\ \A i \in 1..Len(batch.tasks) : batch.tasks[i].pc = "done"
    /\ LET gathered == gather([i \in 1..Len(batch.tasks) |-> batch.tasks[i].result])
           results == gathered.results
           success_count == Cardinality({i \in 1..Len(results) :
                                results[i].kind = "dict" /\ results[i].success})
       IN  batch' =
             IF gathered.raised THEN [batch EXCEPT !.pc = "raised"]
             ELSE [batch EXCEPT !.pc = "returned",
                      !.response = [pc |-> "returned",
                                    total_documents |-> Len(batch.document_ids),
                                    successful |-> success_count,
                                    failed |-> Len(results) - success_count,
                                    results |-> results]]
    /\ UNCHANGED <<ragVars, storeVars, chunking, extraction>>

\* One batch call; d1 has a row in the database, d2 may have none.
InitBatch ==
    /\ batch \in {Batch(ids, n) : ids \in SeqsUpTo(StoreDocs, MaxBatch),
                                  n \in 0..(MaxBatch + 1)}
    /\ batch.n_paths \in {Len(batch.document_ids), Len(batch.document_ids) + 1}
    /\ records \in {{"d1"}, {"d1", "d2"}}
    /\ chunking = NoChunking
    /\ extraction = NoExtraction
    /\ index = {}
    /\ graph = "none"
    /\ has_documents = FALSE
    /\ rag_ready = FALSE
    /\ checkpointer = [t \in ThreadIds |-> <<>>]
    /\ last_retrieved_docs = <<>>
    /\ calls = [c \in AskIds |-> IdleCall]
    /\ nAsks = 0
    /\ recursion_limit = StepLimit
    /\ points = <<>>
    /\ ledger = [d \in StoreDocs |-> 0]
    /\ reply = NoReply

NextBatch ==
    \/ StartBatchProcessing
    \/ \E i \in 1..Len(batch.document_ids) : TaskStart(i)
    \/ \E i \in 1..Len(batch.document_ids) : TaskResume(i)
    \/ ReturnBatch

SpecBatch == InitBatch /\ [][NextBatch]_vars

\* ------------------------------------------------------------------ claims
Running == {"decide", "retrieve", "grade", "rewrite", "answer"}

Returned == {"respond", "done"}

\* The rewrite-retry count N of the loop-termination property.
RetryBound == 2

\* C1: for the rewrite-retry bound N, no ask call takes the
\* Decide -> Retrieve -> Grade -> Rewrite cycle more than N times, also when
\* every Grade ends in "not relevant" or an empty context.
C1_RewritesBounded ==
    \A c \in AskIds : calls[c].rewrites <= RetryBound

\* C2: when a call fails after Decide and Retrieve ran and the fallback is
\* returned, the stored history of its session is the history from before
\* the call: nothing of the failed call remains stored.
C2_FailedCallLeavesNoTrace ==
    \A c \in AskIds :
        (/\ calls[c].pc \in Returned
         /\ calls[c].rag.status = "fallback"
         /\ calls[c].retrievals > 0)
        => checkpointer[calls[c].sid] = calls[c].base

\* C3: a request during which the language model and every backend raised
\* on every invocation gets the fixed apologetic answer with no sources and a
\* non-negative elapsed time, from the controller and from the handler.
C3_OutageGivesFallback ==
    \A c \in AskIds :
        (calls[c].pc \in Returned /\ ~calls[c].extOk) =>
            /\ calls[c].rag.status = "fallback" =>
                  (calls[c].rag.answer = FallbackAnswer /\ calls[c].rag.sources = <<>>)
            /\ calls[c].rag.status # "ok"
            /\ calls[c].pc = "done" =>
                  /\ calls[c].response.answer = FallbackAnswer
                  /\ calls[c].response.sources = <<>>
                  /\ calls[c].response.response_time >= 0

\* A request served during a full outage while the evidence slot still holds
\* the documents of an earlier retrieval.
C3_Witness ==
    \E c \in AskIds :
        /\ calls[c].pc = "done"
        /\ ~calls[c].extOk
        /\ calls[c].rag.status = "fallback"
        /\ last_retrieved_docs # <<>>

\* C4: AgenticRAG.ask_question never raises to its caller, whatever the
\* state of the controller, the graph not being built included.
C4_NoErrorEscapes ==
    \A c \in AskIds : calls[c].rag.status # "raised"

\* C5: the stored history of a thread is only appended to, a setup or refresh
\* in between included, and the history a call runs on is the history its
\* session had when the call arrived followed by the new question.
C5_AppendOnly ==
    [][/\ \A t \in ThreadIds : IsPrefix(checkpointer[t], checkpointer'[t])
       /\ \A c \in AskIds :
            (calls[c].pc = "idle" /\ calls'[c].pc = "decide") =>
                calls'[c].msgs =
                    Append(checkpointer[calls'[c].sid], HumanMessage(c, "question"))]_vars

\* The second request of a session runs on the first request's question and
\* direct reply followed by its own question.
C5_Witness ==
    \E c \in AskIds :
        /\ calls[c].pc = "decide"
        /\ calls[c].msgs = <<HumanMessage(1, "question"), AIReply(1),
                             HumanMessage(c, "question")>>

\* C6: a session's history has one mutator at a time: two requests are never
\* in their graph runs together, and the history a running request works on
\* is the stored history of its session, so no message of another request is
\* interleaved with its own or lost.
C6_SingleMutator ==
    /\ \A c \in AskIds, d \in AskIds :
          (calls[c].pc \in Running /\ calls[d].pc \in Running /\ c # d)
              => calls[c].sid # calls[d].sid
    /\ \A c \in AskIds :
          (calls[c].pc \in Running \cup Returned /\ calls[c].rag.status # "raised")
              => checkpointer[calls[c].sid] = calls[c].msgs

\* A second request on session s1 is running on the history the first left.
C6_Witness ==
    \E c \in AskIds :
        /\ c > 1
        /\ calls[c].pc \in Running
        /\ calls[c].sid = "s1"
        /\ Len(calls[c].msgs) > 1
        /\ calls[c].msgs[1].ask = 1

\* Evidence of the request's own last tool invocation, as its tool message
\* records it.
OwnEvidence(c) ==
    LET own == {i \in 1..Len(calls[c].msgs) :
                   calls[c].msgs[i].type = "tool" /\ calls[c].msgs[i].ask = c}
    IN  IF own = {} THEN <<>>
        ELSE calls[c].msgs[CHOOSE i \in own : \A j \in own : j <= i].content.docs

C8_SessionsIndependent ==
    [][/\ \A t \in ThreadIds :
            checkpointer'[t] # checkpointer[t] =>
                \E c \in AskIds :
                    /\ calls'[c].pc \in Running \cup Returned
                    /\ calls'[c].sid = t
                    /\ calls'[c].msgs = checkpointer'[t]
       /\ \A c \in AskIds :
            calls'[c].pc \in Running =>
                \A t \in ThreadIds \ {calls'[c].sid} :
                    \A i \in 1..Len(calls'[c].msgs), j \in 1..Len(checkpointer'[t]) :
                        calls'[c].msgs[i].ask # checkpointer'[t][j].ask]_vars

\* A request fails while another session has a stored history.
C8_Witness ==
    \E c \in AskIds :
        /\ calls[c].pc = "respond"
        /\ calls[c].rag.status = "fallback"
        /\ calls[c].retrievals > 0
        /\ \E t \in ThreadIds \ {calls[c].sid} : checkpointer[t] # <<>>

\* C9: after Retrieve the run goes to Answer exactly when the retrieved
\* context is non-empty and the grader said "yes", and to Rewrite when it said
\* "no" or there is no context; Answer is entered only from such a Grade of
\* the same request, and only the end of the run follows Answer.
C9_GradeRouting ==
    [][\A c \in AskIds :
         LET r == calls[c]
             n == calls'[c]
         IN  /\ (r.pc # "answer" /\ n.pc = "answer") =>
                    /\ r.pc = "grade"
                    /\ r.pending[1].ask = c
                    /\ r.pending[1].content # EmptyContent
                    /\ n.grade = "yes"
             /\ (r.pc = "grade" /\ n.pc \in {"answer", "rewrite"}) =>
                    (n.pc = "answer" <=>
                        (r.pending[1].content # EmptyContent /\ n.grade = "yes"))
             /\ (r.pc = "grade" /\ r.pending[1].content = EmptyContent) =>
                    n.pc \in {"grade", "rewrite"}
             /\ (r.pc = "grade" /\ n.pc = "rewrite") =>
                    n.grade = IF r.pending[1].content = EmptyContent
                              THEN "none" ELSE "no"
             /\ (r.pc = "grade" /\ n.pc \notin {"grade", "answer", "rewrite"}) =>
                    (n.pc = "respond" /\ n.rag.status = "fallback")
             /\ (r.pc = "retrieve" /\ n.pc # "retrieve") =>
                    n.pc \in {"grade", "respond"}
             /\ (r.pc = "answer" /\ n.pc # "answer") => n.pc = "respond"]_vars

\* A second request of a session whose earlier retrieval found documents is
\* routed to Rewrite because its own retrieval found nothing.
C9_Witness ==
    \E c \in AskIds :
        /\ calls[c].pc = "rewrite"
        /\ calls[c].grade = "none"
        /\ \E i \in 1..Len(calls[c].msgs) :
              /\ calls[c].msgs[i].type = "tool"
              /\ calls[c].msgs[i].ask # c
              /\ calls[c].msgs[i].content # EmptyContent

\* C10: a request that runs Decide while nothing is indexed gets the model's
\* direct reply and never enters Retrieve.
C10_NoRetrieveWithoutDocuments ==
    \A c \in AskIds :
        calls[c].pc \in {"retrieve", "grade", "rewrite", "answer"} => index # {}

\* C11: when the hybrid search raises inside the Retrieve step, the call
\* goes straight to the fixed apologetic answer with no sources; it does not
\* go on to Grade, Rewrite or Answer.
C11_SearchFailureGivesFallback ==
    \A c \in AskIds :
        calls[c].searchRaised =>
            /\ calls[c].pc = "respond"
            /\ calls[c].rag.answer = FallbackAnswer
            /\ calls[c].rag.sources = <<>>

\* C12: the answer of a call that reached End is the content of the last
\* message of its history, and its sources are the first five entries of the
\* evidence slot, in order, each with a preview of at most 300 characters of
\* the content plus an ellipsis.
C12_EndOutput ==
    \A c \in AskIds :
        (calls[c].pc = "respond" /\ calls[c].rag.status = "ok") =>
            LET src == calls[c].rag.sources
                slot == last_retrieved_docs
            IN  /\ calls[c].rag.answer = calls[c].msgs[Len(calls[c].msgs)].content
                /\ Len(src) = IF Len(slot) < SourceLimit THEN Len(slot) ELSE SourceLimit
                /\ \A i \in 1..Len(src) :
                      /\ i <= Len(slot)
                      /\ src[i].document_id = slot[i].document_id
                      /\ src[i].content_preview <= PreviewLimit + EllipsisLen
                      /\ src[i].content_preview =
                            IF slot[i].page_content > PreviewLimit
                            THEN PreviewLimit + EllipsisLen
                            ELSE slot[i].page_content

\* Outcome of a search that returned.
Searched == reply.op = "search" /\ reply.outcome = "ok"

\* C13: every result of a hybrid search has a fused score at or above the
\* score_threshold of the search (in tenths), so that a threshold of 1.1
\* leaves no result.
C13_ThresholdHonoured ==
    (Searched /\ reply.use_hybrid_search) =>
        \A i \in 1..Len(reply.results) :
            10 * reply.results[i].score >= reply.score_threshold * ScoreUnit

\* C14: every result of a search with a document_id filter, hybrid or
\* dense-only, carries that document id, and no search returns more than
\* `limit` results.
C14_FilterCorrect ==
    Searched =>
        /\ Len(reply.results) <= reply.limit
        /\ reply.document_id # NoDocument =>
              \A i \in 1..Len(reply.results) :
                  /\ reply.results[i].document_id = reply.document_id
                  /\ points[reply.results[i].chunk_id].document_id = reply.document_id

\* A filtered hybrid search fills its limit while the other document has a
\* point that is more similar to the query than a returned one.
C14_Witness ==
    /\ Searched
    /\ reply.use_hybrid_search
    /\ reply.document_id # NoDocument
    /\ Len(reply.results) = reply.limit
    /\ \E p \in 1..Len(points), i \in 1..Len(reply.results) :
          /\ points[p].document_id # reply.document_id
          /\ points[p].dense > points[reply.results[i].chunk_id].dense

\* C15: every result of a search has one of the requested content types: a
\* search that excludes tables or figures returns none of them.
C15_ContentTypesHonoured ==
    Searched =>
        \A i \in 1..Len(reply.results) :
            reply.results[i].content_type \in reply.chunk_types

\* 1-based position of a point in a candidate ranking, 0 when it is absent.
Position(ranking, p) ==
    LET at == {i \in 1..Len(ranking) : ranking[i] = p}
    IN  IF at = {} THEN 0 ELSE CHOOSE i \in at : TRUE

\* 1 / (k + rank) in units of 1 / ScoreUnit, which every k + rank divides.
Reciprocal(rank) == IF rank = 0 THEN 0 ELSE ScoreUnit \div (RrfK + rank)

C19_DenseFallback ==
    (reply.op = "search" /\ reply.primary = "raised") =>
        /\ reply.fallback_calls = 1
        /\ reply.error # "NameError"

\* C16: once a delete of a document id has reported success, whatever index
\* and delete calls came before, no point tagged with the id is left: its
\* count is zero and searches filtered on it return nothing; the points of
\* other documents stay, and a delete of an id without points reports success
\* and leaves the collection as it was.
C16_DeleteComplete ==
    [][\A d \in StoreDocs :
        (reply'.op = "delete" /\ reply'.qdrant_success /\ reply'.document_id = d) =>
          /\ PointCount(points', d) = 0
          /\ hybrid_search(d, {"text", "table", "figure"}, MaxLimit, 0)' = <<>>
          /\ search_documents(d, {"text", "table", "figure"}, MaxLimit, 0)' = <<>>
          /\ \A e \in StoreDocs \ {d} : PointCount(points', e) = PointCount(points, e)
          /\ PointCount(points, d) = 0 => points' = points]_vars

\* A successful delete removes the points of several index calls for one
\* document and leaves the points of the other document.
C16_Witness ==
    /\ reply.op = "delete"
    /\ reply.qdrant_success
    /\ reply.removed >= 3
    /\ points # <<>>

C20_NoOrphanChunks ==
    \A d \in StoreDocs : d \notin records => PointCount(points, d) = 0

\* C26: whenever a call is about to grade, to rewrite or to generate its
\* answer, the question put into the prompt is the question the current call
\* was asked, and the context of the grader and of the answer generation is
\* the tool message of the call's own most recent retrieval.
C26_CurrentQuestion ==
    \A c \in AskIds :
        LET r == calls[c]
            messages == r.msgs \o r.pending
            own == {i \in 1..Len(messages) :
                       messages[i].type = "tool" /\ messages[i].ask = c}
        IN  /\ r.pc \in {"grade", "rewrite", "answer"} =>
                  Question(messages) = HumanMessage(c, "question").content
            /\ r.pc \in {"grade", "answer"} =>
                  /\ own # {}
                  /\ LastToolContent(messages) =
                        messages[CHOOSE i \in own : \A j \in own : j <= i].content

\* C28: a call that reached End without a retrieval of its own returns no
\* sources, whatever the evidence slot and the session history hold.
C28_SourcesFromOwnRetrieval ==
    \A c \in AskIds :
        (calls[c].pc = "respond" /\ calls[c].rag.status = "ok"
            /\ calls[c].retrievals = 0)
        => calls[c].rag.sources = <<>>

\* The stored units tagged with a document id, in upload order.
UnitsOf(pts, d) == LET Tagged(p) == p.document_id = d IN SelectSeq(pts, Tagged)

\* Hits of a query as a caller reads them: score and stored payload of each,
\* in order.
Shown(hits, pts) ==
    [i \in 1..Len(hits) |-> [score |-> hits[i].score, payload |-> pts[hits[i].id]]]

\* What the searches filtered on a document id return from collection pts.
FilteredSearches(pts, d) ==
    [limit \in 1..MaxLimit |->
        [hybrid |-> Shown(query_points_fusion(pts, d, limit), pts),
         dense |-> Shown(query_points_dense(pts, d, limit, 0), pts)]]

\* C30: a delete of a document id, whether its vector-store and database
\* steps succeed or fail, leaves every other document id as it was: the same
\* stored units in the same order, and the same results, hybrid and dense,
\* for searches filtered on that id.
C30_DeleteFrame ==
    [][\A d \in StoreDocs :
        (reply'.op = "delete" /\ reply'.document_id = d) =>
          \A e \in StoreDocs \ {d} :
            /\ UnitsOf(points', e) = UnitsOf(points, e)
            /\ FilteredSearches(points', e) = FilteredSearches(points, e)]_vars

\* A delete removed the points of its document while points of another
\* document, stored before and after them, are still found by a search
\* filtered on that document.
C30_Witness ==
    /\ reply.op = "delete"
    /\ reply.removed > 0
    /\ \E e \in StoreDocs \ {reply.document_id} :
          /\ PointCount(points, e) > 1
          /\ hybrid_search(e, {"text", "table", "figure"}, MaxLimit, 0) # <<>>

\* C22: every chunk of every run has content that is non-empty after
\* trimming and at least min_chunk_size characters long, unless it is a
\* table kept whole or a figure; the pieces of a split table are held to the
\* minimum. A document of one page of 50 characters gives no chunk.
C22_ChunksMeetMinimum ==
    \A r \in 1..Len(chunking.runs) :
        /\ \A k \in 1..Len(chunking.runs[r].chunks) :
              LET chunk == chunking.runs[r].chunks[k]
                  size == TextLen(Strip(chunk.page_content))
              IN  /\ size > 0
                  /\ \/ size >= min_chunk_size
                     \/ chunk.is_complete_table = "True"
                     \/ chunk.content_type = "figure"
        /\ chunking.document = <<ShortPage>> => chunking.runs[r].chunks = <<>>

\* C23: in a run that returned, every table of every page whose assembled
\* text (title line, caption line, body) is at most table_max_size long has
\* exactly one chunk, marked complete; a table with an empty body included.
C23_SmallTableOneChunk ==
    \A r \in 1..Len(chunking.runs) :
        chunking.runs[r].outcome = "ok" =>
            \A i \in 1..Len(chunking.document) :
                LET tables == OrNoItems(chunking.document[i].tables) IN
                \A t \in 1..Len(tables) :
                    tables[t].tag = "value" =>
                        LET table == tables[t].value
                            table_metadata == Get(table.metadata,
                                                  [title |-> Absent, caption |-> Absent]).value
                            assembled == FullTableContent(table_metadata.title,
                                                          table_metadata.caption,
                                                          Strip(OrEmpty(table.content)))
                            made == {k \in 1..Len(chunking.runs[r].chunks) :
                                        /\ chunking.runs[r].chunks[k].content_type = "table"
                                        /\ chunking.runs[r].chunks[k].page_number = i - 1
                                        /\ chunking.runs[r].chunks[k].unit_index = t - 1}
                        IN  TextLen(assembled) <= table_max_size =>
                                /\ Cardinality(made) = 1
                                /\ \A k \in made :
                                      chunking.runs[r].chunks[k].is_complete_table = "True"

\* C24: the chunker returns normally for every document, whichever fields of
\* its pages, tables and figures are missing or None.
C24_NeverRaises ==
    \A r \in 1..Len(chunking.runs) : chunking.runs[r].outcome = "ok"

\* C25: two runs of the chunker on the same document with the same
\* configuration return the same sequence of chunks.
C25_Deterministic ==
    \A r1, r2 \in 1..Len(chunking.runs) :
        chunking.runs[r1].chunks = chunking.runs[r2].chunks

\* Pages whose extraction has been started and has not returned.
InFlight ==
    {p \in 0..(extraction.n - 1) : extraction.tasks[p] \in {"scheduled", "running"}}

\* C27: the pages of a document are extracted in batches of three: at most
\* three extractions are in flight; an extraction is started only when every
\* page of the earlier batches has returned and been collected and the pause
\* after each earlier batch is over; and the page list returned holds one
\* page per input page, in page order, failed extractions included.
C27_BatchesOfThree ==
    extraction.pc # "none" =>
        /\ Cardinality(InFlight) <= BatchSize
        /\ \A p \in 0..(extraction.n - 1) :
              extraction.tasks[p] # "idle" =>
                  /\ extraction.slept >= p \div BatchSize
                  /\ \A q \in 0..(extraction.n - 1) :
                        q \div BatchSize < p \div BatchSize =>
                            /\ extraction.tasks[q] = "done"
                            /\ q < Len(extraction.pages)
        /\ extraction.pc = "sleep" => InFlight = {}
        /\ extraction.pc \in {"extracted", "processed"} =>
              /\ extraction.total_pages = extraction.n
              /\ Len(extraction.pages) = extraction.n
              /\ \A k \in 1..Len(extraction.pages) :
                    /\ extraction.pages[k].image = k - 1
                    /\ extraction.pages[k].failed =>
                          extraction.pages[k].page = FailurePage

\* An extraction of two batches returned, with a failed page in each batch
\* and a page that was extracted.
C27_Witness ==
    /\ extraction.pc = "extracted"
    /\ extraction.n > BatchSize
    /\ extraction.slept > 0
    /\ extraction.pages[1].failed
    /\ ~extraction.pages[2].failed
    /\ extraction.pages[extraction.n].failed

\* C29: after process_document of a document with failed page extractions,
\* no indexed chunk has the text of the failure page as its content.
C29_NoPlaceholderIndexed ==
    extraction.pc = "processed" =>
        \A p \in 1..Len(points) : points[p].content # FailureText

\* C21: in a batch over n documents no task is stopped by the failure of
\* another: the call returns only when every task has run to its end, with n
\* results in input order, each the outcome of its own document (a success
\* exactly when none of that document's steps failed, and every returned
\* dict naming that document), and with successful + failed = n.
C21_SiblingsUnaffected ==
    /\ batch.pc = "raised" => Len(batch.document_ids) # batch.n_paths
    /\ batch.pc = "returned" =>
          LET n == Len(batch.document_ids)
              results == batch.response.results
          IN  /\ Len(results) = n
              /\ batch.response.total_documents = n
              /\ batch.response.successful + batch.response.failed = n
              /\ batch.response.failed =
                    Cardinality({i \in 1..n : batch.tasks[i].fault})
              /\ \A i \in 1..n :
                    /\ batch.tasks[i].pc = "done"
                    /\ results[i] = batch.tasks[i].result
                    /\ results[i].kind \in {"dict", "exception"}
                    /\ results[i].kind = "dict" =>
                          results[i].document_id = batch.document_ids[i]
                    /\ (results[i].kind = "dict" /\ results[i].success)
                          <=> ~batch.tasks[i].fault

\* A batch returned in which the first document failed with an exception
\* that left process_document and the second one was processed and indexed.
C21_Witness ==
    /\ batch.pc = "returned"
    /\ Len(batch.document_ids) = 2
    /\ batch.response.results[1].kind = "exception"
    /\ batch.response.results[2].success
    /\ batch.response.results[2].total_chunks > 0
    /\ batch.response.successful = 1
    /\ batch.response.failed = 1

====
